---- MODULE Spec2Model ----
(***************************************************************************)
(* Model of the two KServe inference scripts of the repository:            *)
(*   variant 1: src/deployment/main.py                                     *)
(*   variant 2: src/submission/deployment/main.py                          *)
(* A Python string is a sequence of chunks (a chunk is a TLA+ string, one  *)
(* character for request text); "+" on strings is \o.  A Python value that *)
(* may be a str or a list is tagged: [type |-> "str" | "list", v |-> ...]. *)
(* The tokenizer, the translator and the framework parser are external     *)
(* libraries: the tokenizer is a deterministic stub, the translator's      *)
(* reply and the files on disk are nondeterministic inputs; the command    *)
(* line carries no option.                                                 *)
(* response_id (generate_uuid) is left out of the response record.         *)
(***************************************************************************)
EXTENDS Integers, Sequences, FiniteSets, TLC

VARIABLES
    variant,    \* which script runs: 1 or 2
    disk,       \* artifact file -> TRUE when it can be loaded
    fwActions,  \* model_server.parser._actions
    parsed,     \* outcome of the latest stand-alone parse_arguments() call
    mainPc,     \* position of main()
    wrapper,    \* the TranslationModel instance's fields
    loadCount,  \* number of load() calls made on the instance
    inflight,   \* requests preprocessed and not yet predicted
    last        \* the latest handler call on the wrapper and what it did

vars == <<variant, disk, fwActions, parsed, mainPc, wrapper, loadCount, inflight, last>>

-----------------------------------------------------------------------------
(* Bounds *)

NumReq == 2
MaxTextLen == 2
MaxHypLen == 2

-----------------------------------------------------------------------------
(* Strings and Python values *)

SeqsUpTo(S, n) == UNION {[1..k -> S] : k \in 0..n}

Chars == {"H", " "}
Texts == SeqsUpTo(Chars, MaxTextLen)

PyStr(s) == [type |-> "str", v |-> s]
PyList(xs) == [type |-> "list", v |-> xs]

None == "None"
NoExc == [type |-> "", msg |-> <<>>]
Exc(t, m) == [type |-> t, msg |-> <<m>>]
NoneAttr(attr) == Exc("AttributeError", attr)
IndexErr == Exc("IndexError", "list index out of range")

LowerChar(c) == IF c = "H" THEN "h" ELSE c
Lower(s) == [i \in 1..Len(s) |-> LowerChar(s[i])]

RECURSIVE LStrip(_)
LStrip(s) == IF s # <<>> /\ Head(s) = " " THEN LStrip(Tail(s)) ELSE s

RECURSIVE RStrip(_)
RStrip(s) ==
    IF s # <<>> /\ s[Len(s)] = " " THEN RStrip(SubSeq(s, 1, Len(s) - 1)) ELSE s

Strip(s) == RStrip(LStrip(s))

RECURSIVE Concat(_)
Concat(ss) == IF ss = <<>> THEN <<>> ELSE Head(ss) \o Concat(Tail(ss))

-----------------------------------------------------------------------------
(* Tokenizer stub (sentencepiece): one piece per non-blank character, the  *)
(* first piece of a word carries the word-boundary marker "_".             *)

Piece(text, i) ==
    IF i = 1 \/ text[i - 1] = " " THEN <<"_", text[i]>> ELSE <<text[i]>>

RECURSIVE PiecesFrom(_, _)
PiecesFrom(text, i) ==
    IF i > Len(text) THEN <<>>
    ELSE (IF text[i] = " " THEN <<>> ELSE <<Piece(text, i)>>) \o PiecesFrom(text, i + 1)

EncodeAsPieces(text) == PiecesFrom(text, 1)

Decode(tokens) ==
    LET joined == Concat(tokens)
    IN LStrip([i \in 1..Len(joined) |-> IF joined[i] = "_" THEN " " ELSE joined[i]])

-----------------------------------------------------------------------------
(* Language tags and literals of the two scripts *)

DYU == <<"dyu">>
FR == <<"fr">>
EOS == <<"</s>">>
DYU_LATN == <<"dyu_Latn">>
FRA_LATN == <<"fra_Latn">>
SomeThing == <<"some thing">>
ErrorPrefix == <<"Error: ">>

-----------------------------------------------------------------------------
(* What the translator may answer to translate_batch *)

TgtVocab == {FRA_LATN, <<"_", "b">>}
Hyps == SeqsUpTo(TgtVocab, MaxHypLen)

Result(hs) == [hypotheses |-> hs]

\* two fixed hypotheses, for replies with several hypotheses or several results
HypA == <<FRA_LATN, <<"_", "b">>>>
HypB == <<<<"o">>>>
\* a hypothesis with the tag and two different other tokens
HypC == <<FRA_LATN, <<"_", "b">>, <<"o">>>>

ResultLists ==
    {<<>>, <<Result(<<>>)>>}
    \cup {<<Result(<<h>>)>> : h \in Hyps}
    \cup {<<Result(<<HypC>>)>>, <<Result(<<HypA, HypB>>)>>,
          <<Result(<<HypA>>), Result(<<HypB>>)>>}

Outcomes ==
    {[kind |-> "raise", exc |-> Exc("RuntimeError", "boom")]}
    \cup {[kind |-> "return", results |-> rs] : rs \in ResultLists}

-----------------------------------------------------------------------------
(* Variant 1: TranslationModel._translate, src/deployment/main.py *)

\* faulty framing: the target tag before the end marker
Frame1Swapped(pieces) == <<DYU>> \o pieces \o <<FR, EOS>>

\* lines 85-87: insert(0, "dyu"), append("</s>"), append("fr")
Frame1(pieces) == <<DYU>> \o pieces \o <<EOS, FR>>

\* lines 93-96: decode hypotheses[0] of every result, in order
RECURSIVE DecodeLoop1(_, _, _)
DecodeLoop1(w, results, acc) ==
    IF results = <<>> THEN acc
    ELSE IF Head(results).hypotheses = <<>>
         THEN [acc EXCEPT !.caught = IndexErr]
    ELSE IF w.sp_target_model = None
         THEN [acc EXCEPT !.caught = NoneAttr("decode")]
    ELSE DecodeLoop1(w, Tail(results),
             [acc EXCEPT !.decoded = Append(@, Head(results).hypotheses[1]),
                         !.translations =
                             Append(@, PyStr(Decode(Head(results).hypotheses[1])))])

\* lines 90-96: the body of the try
Try1(w, batch, out) ==
    LET start == [caught |-> NoExc, called |-> FALSE, decoded |-> <<>>,
                  translations |-> <<>>]
    IN IF w.model = None
       THEN [start EXCEPT !.caught = NoneAttr("translate_batch")]
       ELSE IF out.kind = "raise"
       THEN [start EXCEPT !.caught = out.exc, !.called = TRUE]
       ELSE DecodeLoop1(w, out.results, [start EXCEPT !.called = TRUE])

\* lines 89, 97-99: what the try statement leaves in translations
Except1(t) ==
    IF t.caught # NoExc THEN [raised |-> NoExc, translations |-> <<PyStr(<<>>)>>]
    ELSE [raised |-> NoExc, translations |-> t.translations]

\* line 100: the assignment after the try statement
AfterTry1(translations) == <<PyStr(SomeThing)>>

\* lines 83-101; text is the list of source sentences
Translate1(w, text, out) ==
    IF w.sp_source_model = None
    THEN [raised |-> NoneAttr("encode"), caught |-> NoExc, called |-> FALSE,
          batch |-> <<>>, target_prefix |-> <<>>, decoded |-> <<>>,
          tried |-> <<>>, value |-> <<>>]
    ELSE LET tokens == [i \in 1..Len(text) |->
                           IF i = 1 THEN Frame1(EncodeAsPieces(text[i]))
                           ELSE EncodeAsPieces(text[i])]
             t == Try1(w, tokens, out)
             e == Except1(t)
         IN [raised |-> e.raised, caught |-> t.caught, called |-> t.called,
             batch |-> tokens, target_prefix |-> <<>>, decoded |-> t.decoded,
             tried |-> e.translations, value |-> AfterTry1(e.translations)]

-----------------------------------------------------------------------------
(* Variant 2: TranslationModel._translate, src/submission/deployment/main.py *)

\* line 94: [['fra_Latn']] * len([text])
TargetPrefix2(text) == [i \in 1..Len(<<text>>) |-> <<FRA_LATN>>]

\* line 95
Frame2(pieces) == <<DYU_LATN>> \o pieces \o <<EOS>>

\* faulty removal: every element equal to x is dropped
RECURSIVE ListRemoveAll(_, _)
ListRemoveAll(xs, x) ==
    IF xs = <<>> THEN <<>>
    ELSE IF Head(xs) = x THEN ListRemoveAll(Tail(xs), x)
    ELSE <<Head(xs)>> \o ListRemoveAll(Tail(xs), x)

\* list.remove(x): drops the first element equal to x
RECURSIVE ListRemove(_, _)
ListRemove(xs, x) ==
    IF xs = <<>> THEN <<>>
    ELSE IF Head(xs) = x THEN Tail(xs)
    ELSE <<Head(xs)>> \o ListRemove(Tail(xs), x)

\* lines 108-109
StripTag2(translation) ==
    IF \E i \in DOMAIN translation : translation[i] = FRA_LATN
    THEN ListRemove(translation, FRA_LATN)
    ELSE translation

\* lines 97-110: the body of the try
Try2(w, out) ==
    LET start == [caught |-> NoExc, called |-> FALSE, decoded |-> <<>>,
                  trans |-> PyStr(<<>>)]
    IN IF w.model = None
       THEN [start EXCEPT !.caught = NoneAttr("translate_batch")]
       ELSE IF out.kind = "raise"
       THEN [start EXCEPT !.caught = out.exc, !.called = TRUE]
       ELSE IF out.results = <<>> \/ out.results[1].hypotheses = <<>>
       THEN [start EXCEPT !.caught = IndexErr, !.called = TRUE]
       ELSE LET translation == StripTag2(out.results[1].hypotheses[1])
            IN [start EXCEPT !.called = TRUE, !.decoded = <<translation>>,
                             !.trans = PyStr(Decode(translation))]

\* faulty handler: the exception caught in the try is raised again
Except2Reraise(t) ==
    IF t.caught # NoExc THEN [raised |-> t.caught, trans |-> PyStr(<<>>)]
    ELSE [raised |-> NoExc, trans |-> t.trans]

\* lines 96, 111-112: what the try statement leaves in trans
Except2(t) ==
    IF t.caught # NoExc
    THEN [raised |-> NoExc, trans |-> PyList(<<ErrorPrefix \o t.caught.msg>>)]
    ELSE [raised |-> NoExc, trans |-> t.trans]

\* lines 83-113; text is the source string
Translate2(w, text, out) ==
    IF w.tokenizer = None
    THEN [raised |-> NoneAttr("encode_as_pieces"), caught |-> NoExc,
          called |-> FALSE, batch |-> <<>>, target_prefix |-> TargetPrefix2(text),
          decoded |-> <<>>, value |-> PyStr(<<>>)]
    ELSE LET source == [i \in 1..Len(<<text>>) |-> Frame2(EncodeAsPieces(<<text>>[i]))]
             t == Try2(w, out)
             e == Except2(t)
         IN [raised |-> e.raised, caught |-> t.caught, called |-> t.called,
             batch |-> source, target_prefix |-> TargetPrefix2(text),
             decoded |-> t.decoded, value |-> e.trans]

-----------------------------------------------------------------------------
(* _create_response, preprocess and predict *)

CreateResponse(w, translation) ==
    [model_name |-> w.name,
     infer_outputs |-> <<[name |-> "output-0", shape |-> <<1>>,
                          datatype |-> "STR", data |-> <<translation>>]>>]

NoResponse == [model_name |-> None, infer_outputs |-> <<>>]

\* a request payload: its inputs, each with a data list
Payloads ==
    {[inputs |-> <<>>], [inputs |-> <<[data |-> <<>>]>>]}
    \cup {[inputs |-> <<[data |-> <<t>>]>>] : t \in Texts}
    \cup {[inputs |-> <<[data |-> <<<<"H">>, <<" ">>>>], [data |-> <<<<>>>>]>>]}

Preprocess(payload) ==
    IF payload.inputs = <<>> \/ payload.inputs[1].data = <<>>
    THEN [raised |-> IndexErr, value |-> <<>>]
    ELSE [raised |-> NoExc,
          value |-> IF variant = 1 THEN Lower(payload.inputs[1].data[1])
                    ELSE Strip(payload.inputs[1].data[1])]

PreprocessOutputs ==
    {Preprocess(p).value : p \in {q \in Payloads : Preprocess(q).raised = NoExc}}

PredictCall(w, data, out) ==
    LET t == IF variant = 1 THEN Translate1(w, <<Strip(data)>>, out)
             ELSE Translate2(w, data, out)
        translation == IF variant = 1 THEN t.value[1] ELSE t.value
    IN [op |-> "predict", ready |-> w.ready, data |-> data, out |-> out, t |-> t,
        raised |-> t.raised,
        response |-> IF t.raised # NoExc THEN NoResponse
                     ELSE CreateResponse(w, translation)]

-----------------------------------------------------------------------------
(* __init__ and load *)

Artifacts(v) ==
    IF v = 1 THEN {"source.spm", "target.spm", "translator"}
    ELSE {"sentencepiece.bpe.model", "translator"}

NoInstance == [instance |-> FALSE]

\* the fields __init__ assigns before it calls load()
New(name) ==
    IF variant = 1
    THEN [instance |-> TRUE, name |-> name, ready |-> FALSE, model |-> None,
          sp_source_model |-> None, sp_target_model |-> None]
    ELSE [instance |-> TRUE, name |-> name, ready |-> FALSE, model |-> None,
          tokenizer |-> None, mpn |-> None]

\* faulty except clause: the instance is marked ready after a failed load
LoadFailedReady(w) == [raised |-> NoExc, w |-> [w EXCEPT !.ready = TRUE]]

\* the except clause of load()
LoadFailed(w) == [raised |-> NoExc, w |-> [w EXCEPT !.ready = FALSE]]

\* the end of the try body of load()
LoadSucceeded(w) == [raised |-> NoExc, w |-> [w EXCEPT !.ready = TRUE]]

Load1(w, d) ==
    IF ~d["source.spm"] THEN LoadFailed(w)
    ELSE LET w1 == [w EXCEPT !.sp_source_model = "SentencePieceProcessor"]
         IN IF ~d["target.spm"] THEN LoadFailed(w1)
            ELSE LET w2 == [w1 EXCEPT !.sp_target_model = "SentencePieceProcessor"]
                 IN IF ~d["translator"] THEN LoadFailed(w2)
                    ELSE LoadSucceeded([w2 EXCEPT !.model = "Translator"])

Load2(w, d) ==
    IF ~d["sentencepiece.bpe.model"] THEN LoadFailed(w)
    ELSE LET w1 == [w EXCEPT !.tokenizer = "SentencePieceProcessor"]
         IN IF ~d["translator"] THEN LoadFailed(w1)
            ELSE LoadSucceeded([w1 EXCEPT !.model = "Translator"])

Load(w, d) == IF variant = 1 THEN Load1(w, d) ELSE Load2(w, d)

\* TranslationModel(name): the field assignments, then one call of load()
Construct(name, d) ==
    LET l == Load(New(name), d)
    IN [raised |-> l.raised, w |-> l.w, loads |-> 1]

-----------------------------------------------------------------------------
(* parse_arguments *)

HttpPortAction ==
    [option_strings |-> {"--http_port"}, dest |-> "http_port",
     default |-> "8080", help |-> "framework"]

FrameworkModelName ==
    [option_strings |-> {"--model_name"}, dest |-> "model_name",
     default |-> "framework-default", help |-> "framework"]

\* the action the script registers
ModelNameAction ==
    [option_strings |-> {"--model_name"}, dest |-> "model_name",
     default |-> "model", help |-> "The name that the model is served under."]

\* faulty guard: the registration is never seen
ModelNameDefinedNever(actions) == FALSE

\* any('--model_name' in action.option_strings for action in parser._actions)
ModelNameDefined(actions) ==
    \E i \in DOMAIN actions : "--model_name" \in actions[i].option_strings

\* argparse add_argument with the default conflict handler
AddArgument(actions, a) ==
    IF \E i \in DOMAIN actions : actions[i].option_strings \cap a.option_strings # {}
    THEN [raised |-> Exc("ArgumentError", "conflicting option string"),
          actions |-> actions]
    ELSE [raised |-> NoExc, actions |-> Append(actions, a)]

\* argparse parse_args on a command line that carries no option: every
\* destination of the parser gets its action's default
ParseArgs(actions) ==
    LET dests == {actions[i].dest : i \in DOMAIN actions}
        Act(d) == CHOOSE i \in DOMAIN actions : actions[i].dest = d
    IN [raised |-> NoExc, ns |-> [d \in dests |-> actions[Act(d)].default]]

ParseArguments(actions) ==
    LET parser == actions
        added == IF ~ModelNameDefined(actions)
                 THEN AddArgument(actions, ModelNameAction)
                 ELSE [raised |-> NoExc, actions |-> actions]
        args == ParseArgs(parser)
    IN IF added.raised # NoExc
       THEN [raised |-> added.raised, fw |-> added.actions, ns |-> [d \in {} |-> ""]]
       ELSE [raised |-> args.raised, fw |-> added.actions, ns |-> args.ns]

NotParsed == [called |-> FALSE]

-----------------------------------------------------------------------------
(* Actions *)

Init ==
    /\ variant \in {1, 2}
    /\ disk \in [Artifacts(variant) -> BOOLEAN]
    /\ fwActions \in {<<HttpPortAction>>, <<HttpPortAction, FrameworkModelName>>}
    /\ parsed = NotParsed
    /\ mainPc = "start"
    /\ wrapper = NoInstance
    /\ loadCount = 0
    /\ inflight = 0
    /\ last = [op |-> "none"]

\* a call of parse_arguments() before main() runs
CallParseArguments ==
    /\ mainPc = "start"
    /\ LET r == ParseArguments(fwActions)
       IN /\ fwActions' = r.fw
          /\ parsed' = [called |-> TRUE, raised |-> r.raised, ns |-> r.ns]
    /\ UNCHANGED <<variant, disk, mainPc, wrapper, loadCount, inflight, last>>

\* main(): parse_arguments(), TranslationModel(args.model_name), ModelServer().start
Main ==
    /\ mainPc = "start"
    /\ LET r == ParseArguments(fwActions)
       IN /\ fwActions' = r.fw
          /\ IF r.raised # NoExc
             THEN /\ mainPc' = r.raised.type
                  /\ UNCHANGED <<wrapper, loadCount>>
             ELSE IF "model_name" \notin DOMAIN r.ns
             THEN /\ mainPc' = "AttributeError"
                  /\ UNCHANGED <<wrapper, loadCount>>
             ELSE LET c == Construct(r.ns["model_name"], disk)
                  IN /\ wrapper' = c.w
                     /\ loadCount' = loadCount + c.loads
                     /\ mainPc' = IF c.raised # NoExc THEN c.raised.type ELSE "serving"
    /\ UNCHANGED <<variant, disk, parsed, inflight, last>>

\* the framework calls preprocess(payload) for a request it received
DoPreprocess ==
    /\ mainPc = "serving"
    /\ inflight < NumReq
    /\ \E payload \in Payloads :
         LET p == Preprocess(payload)
         IN /\ last' = [op |-> "preprocess", payload |-> payload,
                        raised |-> p.raised, value |-> p.value]
            /\ inflight' = IF p.raised # NoExc THEN inflight ELSE inflight + 1
    /\ UNCHANGED <<variant, disk, fwActions, parsed, mainPc, wrapper, loadCount>>

\* what predict() does to the request and to the record of the latest call
PredictEffect ==
    /\ mainPc = "serving"
    /\ inflight > 0
    /\ \E data \in PreprocessOutputs, out \in Outcomes :
         last' = PredictCall(wrapper, data, out)
    /\ inflight' = inflight - 1

\* faulty predict: the call clears the readiness flag
DoPredictMarksNotReady ==
    /\ PredictEffect
    /\ wrapper' = [wrapper EXCEPT !.ready = FALSE]
    /\ UNCHANGED <<variant, disk, fwActions, parsed, mainPc, loadCount>>

\* the framework calls predict(data) for a preprocessed request
DoPredict ==
    /\ PredictEffect
    /\ UNCHANGED <<variant, disk, fwActions, parsed, mainPc, wrapper, loadCount>>

Next ==
    \/ CallParseArguments
    \/ Main
    \/ DoPreprocess
    \/ DoPredict

Spec == Init /\ [][Next]_vars

-----------------------------------------------------------------------------
(* Properties *)

PredictReturned == last.op = "predict" /\ last.raised = NoExc
Output == last.response.infer_outputs[1]
ModelNameActions == {i \in DOMAIN fwActions : "--model_name" \in fwActions[i].option_strings}
AllArtifactsLoad == \A a \in Artifacts(variant) : disk[a]

\* C1: on a successfully loaded model and a non-empty source string, predict
\* returns a response with exactly one output, of datatype STR, whose data
\* list has exactly one element, whether the translator returns or raises.
C1_ResponseShape ==
    (last.op = "predict" /\ last.ready /\ last.data # <<>>) =>
        /\ last.raised = NoExc
        /\ Len(last.response.infer_outputs) = 1
        /\ Output.datatype = "STR"
        /\ Len(Output.data) = 1

C1_Witness ==
    /\ last.op = "predict" /\ last.ready /\ last.data # <<>>
    /\ last.out.kind = "raise"
    /\ Len(last.response.infer_outputs) = 1

\* C2: when the batch-translate call succeeds and the decoding goes through,
\* the single output data element is the decoding of the first hypothesis of
\* the first result (in variant 2, of that hypothesis without the target tag).
C2_OutputIsFirstHypothesis ==
    (/\ PredictReturned /\ last.t.called /\ last.t.caught = NoExc
     /\ last.out.results # <<>>) =>
        LET h == last.out.results[1].hypotheses[1]
        IN Output.data =
               <<PyStr(Decode(IF variant = 1 THEN h ELSE StripTag2(h)))>>

\* C3: predict never propagates an exception, whatever step of the translate
\* step fails and whether or not load succeeded.
C3_PredictNeverRaises == last.op = "predict" => last.raised = NoExc

\* C4: in variant 2, when the translate call or the decoding raises an
\* exception with message m, the output data list is ["Error: " + m], its
\* one element a string.
C4_ErrorIsString ==
    (variant = 2 /\ PredictReturned /\ last.t.caught # NoExc) =>
        Output.data = <<PyStr(ErrorPrefix \o last.t.caught.msg)>>

\* C5: load() never raises, is called exactly once per constructed instance,
\* and leaves ready true exactly when every artifact loaded.
C5_ReadyIffLoaded ==
    /\ loadCount <= 1
    /\ mainPc \in {"start", "serving", "AttributeError"}
    /\ wrapper.instance =>
           /\ loadCount = 1
           /\ mainPc = "serving"
           /\ wrapper.ready = AllArtifactsLoad

C5_Witness ==
    /\ wrapper.instance /\ loadCount = 1 /\ mainPc = "serving"
    /\ ~wrapper.ready
    /\ \E a \in Artifacts(variant) : ~disk[a]

\* C6: whenever predict has been carried out on the wrapper, the wrapper's
\* ready flag is true.
C6_PredictOnlyWhenReady == last.op = "predict" => wrapper.ready

\* C7: the token sequence passed to translate_batch is ["dyu"] + p + ["</s>",
\* "fr"] in variant 1 and ["dyu_Latn"] + p + ["</s>"] in variant 2, p the
\* pieces of the source text; variant 2 passes a target prefix of length 1,
\* the batch size, whose element is ["fra_Latn"].
C7_Framing ==
    (last.op = "predict" /\ last.t.called) =>
        IF variant = 1
        THEN last.t.batch =
                 <<(<<<<"dyu">>>> \o EncodeAsPieces(Strip(last.data)))
                       \o <<<<"</s>">>, <<"fr">>>>>>
        ELSE /\ last.t.batch =
                    <<(<<<<"dyu_Latn">>>> \o EncodeAsPieces(last.data))
                          \o <<<<"</s>">>>>>>
             /\ Len(last.t.target_prefix) = 1
             /\ Len(last.t.target_prefix) = Len(last.t.batch)
             /\ last.t.target_prefix[1] = <<<<"fra_Latn">>>>

C7_Witness ==
    /\ last.op = "predict" /\ last.t.called
    /\ Len(EncodeAsPieces(Strip(last.data))) = 2
    /\ Len(last.t.batch[1]) = 2 + (IF variant = 1 THEN 3 ELSE 2)

\* C8: parse_arguments never raises a duplicate-registration error, however
\* often it is called; once it has run the framework parser holds exactly one
\* --model_name action, and an action the script registered has default
\* "model".
C8_SingleRegistration ==
    /\ parsed.called => parsed.raised.type # "ArgumentError"
    /\ mainPc # "ArgumentError"
    /\ Cardinality(ModelNameActions) <= 1
    /\ (parsed.called \/ mainPc # "start") => Cardinality(ModelNameActions) = 1
    /\ \A i \in ModelNameActions :
           fwActions[i] # FrameworkModelName => fwActions[i].default = "model"

C8_Witness ==
    /\ parsed.called
    /\ FrameworkModelName \notin {fwActions[i] : i \in DOMAIN fwActions}
    /\ "model_name" \in DOMAIN parsed.ns
    /\ Cardinality(ModelNameActions) = 1

\* C9: once the instance is constructed and loaded, no preprocess or predict
\* call changes a field of the wrapper; the wrapper changes only in a step
\* that calls load().
C9_WrapperFrozen ==
    [][/\ wrapper.instance => wrapper' = wrapper
       /\ wrapper' # wrapper => loadCount' = loadCount + 1]_vars

C9_Witness ==
    /\ last.op = "predict" /\ last.t.caught # NoExc
    /\ inflight >= 1
    /\ wrapper.instance /\ wrapper.ready

\* C10 as stated: in variant 2 the token sequence handed to decode holds no
\* occurrence of "fra_Latn".
C10_NoTagDecoded ==
    (variant = 2 /\ last.op = "predict" /\ last.t.decoded # <<>>) =>
        \A i \in DOMAIN last.t.decoded[1] : last.t.decoded[1][i] # <<"fra_Latn">>

\* C10 amended: in variant 2 the token sequence handed to decode is the
\* hypothesis without its first occurrence of "fra_Latn"; every other token,
\* a later occurrence of the tag included, is passed in its original order,
\* so the sequence holds no tag when the hypothesis holds at most one.
C10_FirstTagRemoved ==
    (variant = 2 /\ last.op = "predict" /\ last.t.decoded # <<>>) =>
        LET h == last.out.results[1].hypotheses[1]
            d == last.t.decoded[1]
            tags == {i \in DOMAIN h : h[i] = <<"fra_Latn">>}
        IN /\ tags = {} => d = h
           /\ tags # {} =>
                  \E i \in tags :
                      /\ \A j \in tags : i <= j
                      /\ d = SubSeq(h, 1, i - 1) \o SubSeq(h, i + 1, Len(h))
           /\ Cardinality(tags) <= 1 =>
                  \A i \in DOMAIN d : d[i] # <<"fra_Latn">>

C10_Witness ==
    /\ variant = 2 /\ last.op = "predict" /\ last.t.decoded # <<>>
    /\ last.out.results[1].hypotheses[1] = HypC
    /\ last.t.decoded[1] = <<<<"_", "b">>, <<"o">>>>

====
